---- MODULE Spec2Model ----
(***************************************************************************)
(* A model of refresh_sheet.py: the Shopify -> Google Sheets order sync.   *)
(*                                                                         *)
(* Python values are tagged records.  A Python str is a sequence of        *)
(* one-character strings, so that the string operations of the code        *)
(* (split, find, slicing, strip, lower, replace, re.search) are computed   *)
(* character by character, as the code computes them.                      *)
(***************************************************************************)
EXTENDS Integers, Sequences, FiniteSets, TLC

VARIABLES
    pc,        \* position of main(): idle, fetching, fetched, ..., done, failed
    run,       \* number of the current run of main()
    cutoff,    \* created_at_min of the current run
    url,       \* fetch_all_orders: url
    params,    \* fetch_all_orders: params (None after the first page)
    orders,    \* fetch_all_orders: orders collected so far
    main_orders, \* main: orders, the list fetch_all_orders returned, or None
    requests,  \* the requests.get calls issued in this run, in order
    upstream,  \* the order source: request key -> response (fixed once served)
    err,       \* the exception that ended the run, or None
    df,        \* main: the DataFrame
    tab,       \* the spreadsheet tab: [exists, cells]
    tab0,      \* the tab as it was when the current run started
    sheetOps,  \* the spreadsheet operations performed in this run, in order
    prev,      \* the last successful run: [ok, cutoff, cells]
    fin,       \* input of the function under study (function specifications)
    fout       \* its result, or NotRun

pvars == <<pc, run, cutoff, url, params, orders, main_orders, requests, upstream, err, df,
           tab, tab0, sheetOps, prev>>
vars == <<pc, run, cutoff, url, params, orders, main_orders, requests, upstream,
          err, df, tab, tab0, sheetOps, prev, fin, fout>>

-----------------------------------------------------------------------------
(* Python values *)

NoneV == [k |-> "None"]
PyStr(s) == [k |-> "str", v |-> s]
PyInt(n) == [k |-> "int", v |-> n]
\* a float, held in thousandths
PyFloat(m) == [k |-> "float", v |-> m]
PyBool(b) == [k |-> "bool", v |-> b]
PyList(l) == [k |-> "list", v |-> l]
\* a dict: a function from keys (TLA+ strings) to values
PyDict(d) == [k |-> "dict", v |-> d]
EmptyDict == PyDict(<<>>)
\* an exception raised by an expression
Raise(e) == [k |-> "raise", v |-> e]
NotRun == [k |-> "notrun"]

IsRaise(x) == x.k = "raise"

\* Python truthiness of a value
Truthy(x) ==
    CASE x.k = "None" -> FALSE
      [] x.k = "str" -> x.v # <<>>
      [] x.k = "int" -> x.v # 0
      [] x.k = "float" -> x.v # 0
      [] x.k = "bool" -> x.v
      [] x.k = "list" -> x.v # <<>>
      [] x.k = "dict" -> DOMAIN x.v # {}
      [] OTHER -> TRUE

\* d.get(key, default); AttributeError when d is no dict
Get(d, key, default) ==
    IF d.k # "dict" THEN Raise("AttributeError")
    ELSE IF key \in DOMAIN d.v THEN d.v[key] ELSE default

\* Python's `a or b`
Or(a, b) == IF Truthy(a) THEN a ELSE b

-----------------------------------------------------------------------------
(* Python str operations, on sequences of characters *)

\* the string literals of the code
Lit ==
    [embalado |-> <<"e", "m", "b", "a", "l", "a", "d", "o">>,
     transferido_a_tienda |-> <<"t", "r", "a", "n", "s", "f", "e", "r", "i", "d", "o", "_", "a", "_", "t", "i", "e", "n", "d", "a">>,
     listo_para_retiro |-> <<"l", "i", "s", "t", "o", "_", "p", "a", "r", "a", "_", "r", "e", "t", "i", "r", "o">>,
     retirado_por_cliente |-> <<"r", "e", "t", "i", "r", "a", "d", "o", "_", "p", "o", "r", "_", "c", "l", "i", "e", "n", "t", "e">>,
     transportista |-> <<"t", "r", "a", "n", "s", "p", "o", "r", "t", "i", "s", "t", "a">>,
     carrier |-> <<"c", "a", "r", "r", "i", "e", "r">>,
     entregado_a_transportista |-> <<"e", "n", "t", "r", "e", "g", "a", "d", "o", "_", "a", "_", "t", "r", "a", "n", "s", "p", "o", "r", "t", "i", "s", "t", "a">>,
     None |-> <<"N", "o", "n", "e">>,
     True |-> <<"T", "r", "u", "e">>,
     False |-> <<"F", "a", "l", "s", "e">>,
     any |-> <<"a", "n", "y">>,
     http |-> <<"h", "t", "t", "p">>,
     utc_offset |-> <<"+", "0", "0", ":", "0", "0">>,
     rel_next |-> <<"r", "e", "l", "=", "\"", "n", "e", "x", "t", "\"">>,
     orders_json |-> <<"/", "o", "r", "d", "e", "r", "s", ".", "j", "s", "o", "n">>]

NBSP == "nbsp"
NNBSP == "nnbsp"

Min(a, b) == IF a < b THEN a ELSE b
Max(a, b) == IF a > b THEN a ELSE b

\* s[a:b]
PySlice(s, a, b) ==
    LET n == Len(s)
        lo == Max(0, Min(n, IF a < 0 THEN a + n ELSE a))
        hi == Max(0, Min(n, IF b < 0 THEN b + n ELSE b))
    IN IF lo >= hi THEN <<>> ELSE SubSeq(s, lo + 1, hi)

\* s[i:].startswith(sub), i counted from 0
StartsAt(s, sub, i) ==
    /\ i >= 0
    /\ i + Len(sub) <= Len(s)
    /\ \A j \in 1..Len(sub) : s[i + j] = sub[j]

\* s.find(sub): the lowest index, from 0, or -1
Find(s, sub) ==
    LET hits == {i \in 0..(Len(s) - Len(sub)) : StartsAt(s, sub, i)}
    IN IF hits = {} THEN -1 ELSE CHOOSE i \in hits : \A j \in hits : i <= j

\* sub in s
Contains(s, sub) == Find(s, sub) # -1

IsSpace(c) == c \in {" ", "\t", "\n", NBSP, NNBSP}

RECURSIVE LStrip(_)
LStrip(s) ==
    IF s # <<>> /\ IsSpace(Head(s)) THEN LStrip(Tail(s)) ELSE s

RECURSIVE RStrip(_)
RStrip(s) ==
    IF s # <<>> /\ IsSpace(s[Len(s)]) THEN RStrip(SubSeq(s, 1, Len(s) - 1)) ELSE s

\* s.strip()
Strip(s) == RStrip(LStrip(s))

\* s.split(c), c one character
RECURSIVE Split(_, _)
Split(s, c) ==
    LET i == Find(s, <<c>>)
    IN IF i = -1 THEN <<s>>
       ELSE <<SubSeq(s, 1, i)>> \o Split(SubSeq(s, i + 2, Len(s)), c)

\* s.replace(c, sub), c one character
RECURSIVE Replace(_, _, _)
Replace(s, c, sub) ==
    IF s = <<>> THEN <<>>
    ELSE (IF Head(s) = c THEN sub ELSE <<Head(s)>>) \o Replace(Tail(s), c, sub)

LowerOf(c) ==
    CASE c = "A" -> "a" [] c = "B" -> "b" [] c = "C" -> "c" [] c = "D" -> "d"
      [] c = "E" -> "e" [] c = "F" -> "f" [] c = "G" -> "g" [] c = "H" -> "h"
      [] c = "I" -> "i" [] c = "J" -> "j" [] c = "K" -> "k" [] c = "L" -> "l"
      [] c = "M" -> "m" [] c = "N" -> "n" [] c = "O" -> "o" [] c = "P" -> "p"
      [] c = "Q" -> "q" [] c = "R" -> "r" [] c = "S" -> "s" [] c = "T" -> "t"
      [] c = "U" -> "u" [] c = "V" -> "v" [] c = "W" -> "w" [] c = "X" -> "x"
      [] c = "Y" -> "y" [] c = "Z" -> "z" [] OTHER -> c

\* s.lower()
Lower(s) == [i \in 1..Len(s) |-> LowerOf(s[i])]

IsDigit(c) == c \in {"0", "1", "2", "3", "4", "5", "6", "7", "8", "9"}

DigitVal(c) ==
    CASE c = "0" -> 0 [] c = "1" -> 1 [] c = "2" -> 2 [] c = "3" -> 3
      [] c = "4" -> 4 [] c = "5" -> 5 [] c = "6" -> 6 [] c = "7" -> 7
      [] c = "8" -> 8 [] c = "9" -> 9

DigitChar(d) ==
    CASE d = 0 -> "0" [] d = 1 -> "1" [] d = 2 -> "2" [] d = 3 -> "3"
      [] d = 4 -> "4" [] d = 5 -> "5" [] d = 6 -> "6" [] d = 7 -> "7"
      [] d = 8 -> "8" [] d = 9 -> "9"

AllDigits(s) == \A i \in 1..Len(s) : IsDigit(s[i])

\* int(s) of a string of digits
RECURSIVE DigitsToInt(_)
DigitsToInt(s) ==
    IF s = <<>> THEN 0
    ELSE 10 * DigitsToInt(SubSeq(s, 1, Len(s) - 1)) + DigitVal(s[Len(s)])

\* str(n), n >= 0
RECURSIVE IntToDigits(_)
IntToDigits(n) ==
    IF n < 10 THEN <<DigitChar(n)>>
    ELSE IntToDigits(n \div 10) \o <<DigitChar(n % 10)>>

\* n as at least w digits, zero-padded (strftime's %d %m %H %M %S %Y)
Pad(n, w) ==
    LET d == IntToDigits(n)
    IN IF Len(d) >= w THEN d ELSE [i \in 1..(w - Len(d)) |-> "0"] \o d

-----------------------------------------------------------------------------
(* _get_next_page_url *)

\* the for loop over the parts of the header
RECURSIVE next_in_parts(_)
next_in_parts(parts) ==
    IF parts = <<>> THEN NoneV
    ELSE LET p == Strip(Head(parts))
         IN IF Contains(p, Lit.rel_next)
            THEN LET start == Find(p, <<"<">>) + 1
                     end == Find(p, <<">">>)
                 IN PyStr(PySlice(p, start, end))
            ELSE next_in_parts(Tail(parts))

get_next_page_url(link_header) ==
    IF ~Truthy(link_header) THEN NoneV
    ELSE next_in_parts(Split(link_header.v, ","))

-----------------------------------------------------------------------------
(* datetime: construction, fromisoformat, strftime *)

IsLeap(y) == (y % 4 = 0 /\ y % 100 # 0) \/ y % 400 = 0

DaysInMonth(y, m) ==
    IF m = 2 THEN (IF IsLeap(y) THEN 29 ELSE 28)
    ELSE IF m \in {4, 6, 9, 11} THEN 30 ELSE 31

\* datetime(y, mo, d, h, mi, se) does not raise ValueError
ValidDateTime(y, mo, d, h, mi, se) ==
    /\ y \in 1..9999
    /\ mo \in 1..12
    /\ d >= 1 /\ d <= DaysInMonth(y, mo)
    /\ h \in 0..23
    /\ mi \in 0..59
    /\ se \in 0..59

NoDate == [ok |-> FALSE]
DateTime(y, mo, d, h, mi, se) ==
    IF ValidDateTime(y, mo, d, h, mi, se)
    THEN [ok |-> TRUE, y |-> y, mo |-> mo, d |-> d, h |-> h, mi |-> mi, se |-> se]
    ELSE NoDate

\* the digits s[i+1..i+n] (i from 0) as a number, or -1
NumAt(s, i, n) ==
    IF i + n <= Len(s) /\ AllDigits(SubSeq(s, i + 1, i + n))
    THEN DigitsToInt(SubSeq(s, i + 1, i + n))
    ELSE -1

CharAt(s, i) == IF i >= 0 /\ i < Len(s) THEN s[i + 1] ELSE "eos"

\* a UTC offset [+-]HH:MM, or nothing, is all of s
IsoOffsetOk(s) ==
    \/ s = <<>>
    \/ /\ Len(s) = 6
       /\ s[1] \in {"+", "-"}
       /\ NumAt(s, 1, 2) \in 0..23
       /\ s[4] = ":"
       /\ NumAt(s, 4, 2) \in 0..59

\* a fraction .fff or .ffffff, then an offset, or only an offset, is all of s
IsoTailOk(s) ==
    \/ IsoOffsetOk(s)
    \/ /\ Len(s) >= 4 /\ s[1] = "." /\ NumAt(s, 1, 3) >= 0
       /\ IsoOffsetOk(SubSeq(s, 5, Len(s)))
    \/ /\ Len(s) >= 7 /\ s[1] = "." /\ NumAt(s, 1, 6) >= 0
       /\ IsoOffsetOk(SubSeq(s, 8, Len(s)))

\* datetime.fromisoformat(s): YYYY-MM-DD[*HH:MM[:SS[.fff[fff]]][+HH:MM]]
\* the wall-clock fields as written (strftime prints them without conversion)
fromisoformat(s) ==
    LET y == NumAt(s, 0, 4)
        mo == NumAt(s, 5, 2)
        d == NumAt(s, 8, 2)
        dateOk == y >= 0 /\ mo >= 0 /\ d >= 0 /\ CharAt(s, 4) = "-" /\ CharAt(s, 7) = "-"
        h == NumAt(s, 11, 2)
        mi == NumAt(s, 14, 2)
        se == NumAt(s, 17, 2)
    IN IF ~dateOk THEN NoDate
       ELSE IF Len(s) = 10 THEN DateTime(y, mo, d, 0, 0, 0)
       ELSE IF h >= 0 /\ CharAt(s, 13) = ":" /\ mi >= 0
               /\ CharAt(s, 16) = ":" /\ se >= 0
               /\ IsoTailOk(SubSeq(s, 20, Len(s)))
            THEN DateTime(y, mo, d, h, mi, se)
       ELSE IF h >= 0 /\ CharAt(s, 13) = ":" /\ mi >= 0
               /\ IsoOffsetOk(SubSeq(s, 17, Len(s)))
            THEN DateTime(y, mo, d, h, mi, 0)
       ELSE NoDate

\* dt.strftime("%d/%m/%Y %H:%M:%S")
strftime(dt) ==
    Pad(dt.d, 2) \o <<"/">> \o Pad(dt.mo, 2) \o <<"/">> \o Pad(dt.y, 4) \o <<" ">>
        \o Pad(dt.h, 2) \o <<":">> \o Pad(dt.mi, 2) \o <<":">> \o Pad(dt.se, 2)

\* repr of a float held in thousandths: 19990 -> 19.99, 20000 -> 20.0
FloatRepr(m) ==
    LET a == IF m < 0 THEN 0 - m ELSE m
        frac == a % 1000
        digits == IF frac % 100 = 0 THEN <<DigitChar(frac \div 100)>>
                  ELSE IF frac % 10 = 0 THEN Pad(frac \div 10, 2)
                  ELSE Pad(frac, 3)
    IN (IF m < 0 THEN <<"-">> ELSE <<>>) \o IntToDigits(a \div 1000) \o <<".">> \o digits

\* str(x)
str(x) ==
    CASE x.k = "str" -> x.v
      [] x.k = "None" -> Lit.None
      [] x.k = "int" -> (IF x.v < 0 THEN <<"-">> \o IntToDigits(0 - x.v) ELSE IntToDigits(x.v))
      [] x.k = "float" -> FloatRepr(x.v)
      [] x.k = "bool" -> (IF x.v THEN Lit.True ELSE Lit.False)

-----------------------------------------------------------------------------
(* format_datetime *)

\* the except branch of format_datetime
format_datetime_except(date_string) == str(date_string)

format_datetime(date_string) ==
    IF ~Truthy(date_string) THEN <<>>
    ELSE IF date_string.k # "str" THEN format_datetime_except(date_string)
    ELSE LET dt == fromisoformat(Replace(date_string.v, "Z", Lit.utc_offset))
         IN IF dt.ok THEN strftime(dt) ELSE format_datetime_except(date_string)

-----------------------------------------------------------------------------
(* to_float *)

\* float(s) in thousandths, or -1 for ValueError: [sign] digits [. digits],
\* surrounding whitespace allowed; digits after the third decimal are dropped
ParseFloat(s0) ==
    LET s1 == Strip(s0)
        neg == s1 # <<>> /\ Head(s1) = "-"
        s == IF s1 # <<>> /\ Head(s1) \in {"-", "+"} THEN Tail(s1) ELSE s1
        dot == Find(s, <<".">>)
        ip == IF dot = -1 THEN s ELSE SubSeq(s, 1, dot)
        fp == IF dot = -1 THEN <<>> ELSE SubSeq(s, dot + 2, Len(s))
        fp3 == SubSeq(fp \o <<"0", "0", "0">>, 1, 3)
        ok == AllDigits(ip) /\ AllDigits(fp) /\ (ip # <<>> \/ fp # <<>>)
        mag == 1000 * DigitsToInt(ip) + DigitsToInt(fp3)
    IN IF ok THEN [ok |-> TRUE, v |-> IF neg THEN 0 - mag ELSE mag]
       ELSE [ok |-> FALSE]

to_float(x) ==
    IF x.k = "None" \/ x = PyStr(<<>>) THEN PyFloat(0)
    ELSE IF x.k \notin {"str", "int", "float", "bool"} THEN PyFloat(0)
    ELSE LET p == ParseFloat(Replace(str(x), ",", <<".">>))
         IN IF p.ok THEN PyFloat(p.v) ELSE PyFloat(0)

-----------------------------------------------------------------------------
(* parse_trace_dt *)

\* (\d{2})-(\d{2})-(\d{4}) matches at i (from 0)
DateAt(s, i) ==
    /\ NumAt(s, i, 2) >= 0 /\ CharAt(s, i + 2) = "-"
    /\ NumAt(s, i + 3, 2) >= 0 /\ CharAt(s, i + 5) = "-"
    /\ NumAt(s, i + 6, 4) >= 0

\* the width of the hour when (\d{1,2}):(\d{2}):(\d{2}) matches at j, else 0
HourWidthAt(s, j) ==
    IF NumAt(s, j, 2) >= 0 /\ CharAt(s, j + 2) = ":" /\ NumAt(s, j + 3, 2) >= 0
       /\ CharAt(s, j + 5) = ":" /\ NumAt(s, j + 6, 2) >= 0
    THEN 2
    ELSE IF NumAt(s, j, 1) >= 0 /\ CharAt(s, j + 1) = ":" /\ NumAt(s, j + 2, 2) >= 0
            /\ CharAt(s, j + 4) = ":" /\ NumAt(s, j + 5, 2) >= 0
    THEN 1
    ELSE 0

\* the positions j where the time can match after a date at i: .*? crosses no newline
TimesAfter(s, i) ==
    {j \in (i + 10)..Len(s) :
        /\ HourWidthAt(s, j) > 0
        /\ \A q \in (i + 10)..(j - 1) : CharAt(s, q) # "\n"}

RECURSIVE SkipSpaces(_, _)
SkipSpaces(s, i) == IF IsSpace(CharAt(s, i)) THEN SkipSpaces(s, i + 1) ELSE i

\* the group of (?:\s*([ap])\s*\.?\s*m\s*\.?)? at e, or None
MarkerAt(s, e) ==
    LET k1 == SkipSpaces(s, e)
        k2 == SkipSpaces(s, k1 + 1)
        k3 == IF CharAt(s, k2) = "." THEN k2 + 1 ELSE k2
        k4 == SkipSpaces(s, k3)
    IN IF CharAt(s, k1) \in {"a", "p"} /\ CharAt(s, k4) = "m"
       THEN PyStr(<<CharAt(s, k1)>>)
       ELSE NoneV

\* the least element of a non-empty set of numbers
MinOf(S) == CHOOSE a \in S : \A b \in S : a <= b

\* m.groups() for a date at i and a time at j whose hour has w digits
trace_groups(s, i, j, w) ==
    [ok |-> TRUE,
     dd |-> NumAt(s, i, 2), mm |-> NumAt(s, i + 3, 2), yyyy |-> NumAt(s, i + 6, 4),
     hh |-> NumAt(s, j, w), mi |-> NumAt(s, j + w + 1, 2),
     ss |-> NumAt(s, j + w + 4, 2), ap |-> MarkerAt(s, j + w + 6)]

\* the lazy .*? stops at the nearest time after the date at i
trace_match_time(s, i, j) == trace_groups(s, i, j, HourWidthAt(s, j))

trace_match_at(s, i) == trace_match_time(s, i, MinOf(TimesAfter(s, i)))

\* the positions where the whole pattern can match
trace_starts(s) == {i \in 0..Len(s) : DateAt(s, i) /\ TimesAfter(s, i) # {}}

\* re.search of the pattern in s: the leftmost date that a time follows
trace_search(s) ==
    IF trace_starts(s) = {} THEN [ok |-> FALSE]
    ELSE trace_match_at(s, MinOf(trace_starts(s)))

\* a conversion that adds 12 to every p hour, 12 included
hour_plus_12(hh, ap) == IF ap = PyStr(<<"p">>) THEN hh + 12 ELSE hh

\* lines 61-64: the 12-hour to 24-hour conversion
hour_after_p(hh, ap) == IF ap = PyStr(<<"p">>) /\ hh # 12 THEN hh + 12 ELSE hh

to_24h(hh, ap) ==
    IF ap = PyStr(<<"a">>) /\ hour_after_p(hh, ap) = 12 THEN 0
    ELSE hour_after_p(hh, ap)

\* lines 66-70: the datetime is formatted, or t is returned when it is invalid
trace_format(t, dt) == IF dt.ok THEN strftime(dt) ELSE t

\* lines 56-70
trace_from_match(t, m) ==
    IF ~m.ok THEN t
    ELSE trace_format(t, DateTime(m.yyyy, m.mm, m.dd, to_24h(m.hh, m.ap), m.mi, m.ss))

\* line 49
trace_normalise(t) == Strip(Replace(Replace(Lower(t), NBSP, <<" ">>), NNBSP, <<" ">>))

\* lines 43-55
trace_iso_or_locale(t, iso) ==
    IF iso.ok THEN strftime(iso)
    ELSE trace_from_match(t, trace_search(trace_normalise(t)))

\* lines 42-70, t the stripped value
trace_stripped(t) == trace_iso_or_locale(t, fromisoformat(Replace(t, "Z", Lit.utc_offset)))

parse_trace_dt(value) ==
    IF ~Truthy(value) THEN <<>> ELSE trace_stripped(Strip(str(value)))

-----------------------------------------------------------------------------
(* extract_traceability *)

\* the keys of a row, by name
Col ==
    [Order_ID |-> <<"O", "r", "d", "e", "r", "_", "I", "D">>,
     KC |-> <<"K", "C">>,
     Created_at |-> <<"C", "r", "e", "a", "t", "e", "d", "_", "a", "t">>,
     Updated_at |-> <<"U", "p", "d", "a", "t", "e", "d", "_", "a", "t">>,
     Financial_Status |-> <<"F", "i", "n", "a", "n", "c", "i", "a", "l", "_", "S", "t", "a", "t", "u", "s">>,
     Paid_at |-> <<"P", "a", "i", "d", " ", "a", "t">>,
     Fulfillment_Status |-> <<"F", "u", "l", "f", "i", "l", "l", "m", "e", "n", "t", " ", "S", "t", "a", "t", "u", "s">>,
     Fulfilled_at |-> <<"F", "u", "l", "f", "i", "l", "l", "e", "d", " ", "a", "t">>,
     Subtotal |-> <<"S", "u", "b", "t", "o", "t", "a", "l">>,
     Shipping |-> <<"S", "h", "i", "p", "p", "i", "n", "g">>,
     Total |-> <<"T", "o", "t", "a", "l">>,
     Discount_Amount |-> <<"D", "i", "s", "c", "o", "u", "n", "t", "_", "A", "m", "o", "u", "n", "t">>,
     Metodo_envio |-> <<"M", "e", "t", "o", "d", "o", "_", "e", "n", "v", "i", "o">>,
     SKUs |-> <<"S", "K", "U", "s">>,
     Total_Productos |-> <<"T", "o", "t", "a", "l", "_", "P", "r", "o", "d", "u", "c", "t", "o", "s">>,
     Billing_City |-> <<"B", "i", "l", "l", "i", "n", "g", " ", "C", "i", "t", "y">>,
     Billing_Province |-> <<"B", "i", "l", "l", "i", "n", "g", " ", "P", "r", "o", "v", "i", "n", "c", "e">>,
     Shipping_City |-> <<"S", "h", "i", "p", "p", "i", "n", "g", " ", "C", "i", "t", "y">>,
     Lineitem_requires_shipping |-> <<"L", "i", "n", "e", "i", "t", "e", "m", " ", "r", "e", "q", "u", "i", "r", "e", "s", " ", "s", "h", "i", "p", "p", "i", "n", "g">>,
     Lineitem_fulfillment_status |-> <<"L", "i", "n", "e", "i", "t", "e", "m", " ", "f", "u", "l", "f", "i", "l", "l", "m", "e", "n", "t", " ", "s", "t", "a", "t", "u", "s">>,
     Embalado |-> <<"E", "m", "b", "a", "l", "a", "d", "o">>,
     Transferido_a_tienda |-> <<"T", "r", "a", "n", "s", "f", "e", "r", "i", "d", "o", "_", "a", "_", "t", "i", "e", "n", "d", "a">>,
     Listo_para_retiro |-> <<"L", "i", "s", "t", "o", "_", "p", "a", "r", "a", "_", "r", "e", "t", "i", "r", "o">>,
     Retirado |-> <<"R", "e", "t", "i", "r", "a", "d", "o">>,
     Entregado_a_transportista |-> <<"E", "n", "t", "r", "e", "g", "a", "d", "o", "_", "a", "_", "t", "r", "a", "n", "s", "p", "o", "r", "t", "i", "s", "t", "a">>,
     Cancelled_at |-> <<"C", "a", "n", "c", "e", "l", "l", "e", "d", " ", "a", "t">>,
     Tags |-> <<"T", "a", "g", "s">>]

\* the keys of a row, in the order of the dict literal of orders_to_rows
COLUMNS ==
    <<Col.Order_ID, Col.KC, Col.Created_at, Col.Updated_at,
      Col.Financial_Status, Col.Paid_at, Col.Fulfillment_Status, Col.Fulfilled_at,
      Col.Subtotal, Col.Shipping, Col.Total, Col.Discount_Amount,
      Col.Metodo_envio, Col.SKUs, Col.Total_Productos, Col.Billing_City,
      Col.Billing_Province, Col.Shipping_City, Col.Lineitem_requires_shipping, Col.Lineitem_fulfillment_status,
      Col.Embalado, Col.Transferido_a_tienda, Col.Listo_para_retiro, Col.Retirado,
      Col.Entregado_a_transportista, Col.Cancelled_at, Col.Tags>>

\* the characters strings are ordered by, in code point order
ASCII ==
    <<" ", "+", ",", "-", ".", "/",
      "0", "1", "2", "3", "4", "5", "6", "7", "8", "9", ":",
      "A", "B", "C", "D", "E", "F", "G", "H", "I", "J", "K", "L", "M", "N", "O",
      "P", "Q", "R", "S", "T", "U", "V", "W", "X", "Y", "Z", "_",
      "a", "b", "c", "d", "e", "f", "g", "h", "i", "j", "k", "l", "m", "n", "o",
      "p", "q", "r", "s", "t", "u", "v", "w", "x", "y", "z">>

TRACE_KEYS ==
    {Col.Embalado, Col.Transferido_a_tienda, Col.Listo_para_retiro, Col.Retirado,
     Col.Entregado_a_transportista}

\* lines 87-97: the key of the trace that a (stripped, lowercased) name sets
trace_key(name, name_norm) ==
    IF name = Lit.embalado THEN PyStr(Col.Embalado)
    ELSE IF name = Lit.transferido_a_tienda THEN PyStr(Col.Transferido_a_tienda)
    ELSE IF name = Lit.listo_para_retiro THEN PyStr(Col.Listo_para_retiro)
    ELSE IF name = Lit.retirado_por_cliente THEN PyStr(Col.Retirado)
    ELSE IF \/ Contains(name_norm, Lit.transportista)
            \/ Contains(name_norm, Lit.carrier)
            \/ Contains(name_norm, Lit.entregado_a_transportista)
    THEN PyStr(Col.Entregado_a_transportista)
    ELSE NoneV

\* line 96
name_norm_of(name) == Replace(Replace(name, "-", <<"_">>), " ", <<"_">>)

\* lines 88-98: the assignment to the trace
trace_assign(trace, key, value) ==
    IF key = NoneV THEN trace
    ELSE [trace EXCEPT !.v[key.v] = parse_trace_dt(value)]

trace_set(trace, name, value) ==
    trace_assign(trace, trace_key(name, name_norm_of(name)), value)

\* lines 84-85, then the chain
trace_named(trace, rawName, rawValue) ==
    IF IsRaise(rawName) \/ IsRaise(rawValue) THEN Raise("AttributeError")
    ELSE trace_set(trace, Lower(Strip(str(rawName))), PyStr(Strip(str(rawValue))))

\* the body of the for loop: the trace after one note attribute
trace_step(trace, attr) ==
    trace_named(trace, Get(attr, "name", PyStr(<<>>)), Get(attr, "value", PyStr(<<>>)))

RECURSIVE trace_loop(_, _)
trace_loop(trace, attrs) ==
    IF attrs = <<>> \/ IsRaise(trace) THEN trace
    ELSE trace_loop(trace_step(trace, Head(attrs)), Tail(attrs))

\* the trace dict (its keys are TRACE_KEYS), or the exception raised
extract_traceability(note_attrs) ==
    LET trace == PyDict([key \in TRACE_KEYS |-> <<>>])
    IN IF ~Truthy(note_attrs) THEN trace
       ELSE trace_loop(trace, note_attrs.v)

-----------------------------------------------------------------------------
(* get_fulfilled_at *)

\* the rank of a character in code point order
Ord(c) == CHOOSE i \in 1..Len(ASCII) : ASCII[i] = c

\* a <= b for Python strs
RECURSIVE StrLeq(_, _)
StrLeq(a, b) ==
    IF a = <<>> THEN TRUE
    ELSE IF b = <<>> THEN FALSE
    ELSE IF Head(a) = Head(b) THEN StrLeq(Tail(a), Tail(b))
    ELSE Ord(Head(a)) < Ord(Head(b))

\* [f(x) for x in xs if f(x)] with f = x.get(key)
RECURSIVE TruthyGets(_, _)
TruthyGets(xs, key) ==
    IF xs = <<>> THEN <<>>
    ELSE LET g == Get(Head(xs), key, NoneV)
         IN (IF Truthy(g) THEN <<g>> ELSE <<>>) \o TruthyGets(Tail(xs), key)

Range(s) == {s[i] : i \in 1..Len(s)}
AnyRaise(s) == \E i \in 1..Len(s) : IsRaise(s[i])

get_fulfilled_at(order) ==
    LET fulf == Or(Get(order, "fulfillments", NoneV), PyList(<<>>))
        dates == TruthyGets(fulf.v, "created_at")
    IN IF ~Truthy(fulf) THEN NoneV
       ELSE IF AnyRaise(dates) THEN Raise("AttributeError")
       ELSE IF dates = <<>> THEN NoneV
       ELSE CHOOSE d \in Range(dates) : \A e \in Range(dates) : StrLeq(e.v, d.v)

-----------------------------------------------------------------------------
(* orders_to_rows *)

\* int(x): ValueError for a str that is no integer literal
int(x) ==
    CASE x.k = "int" -> x
      [] x.k = "bool" -> PyInt(IF x.v THEN 1 ELSE 0)
      [] x.k = "float" -> PyInt(IF x.v < 0 THEN 0 - ((0 - x.v) \div 1000) ELSE x.v \div 1000)
      [] x.k = "str" ->
            LET s1 == Strip(x.v)
                neg == s1 # <<>> /\ Head(s1) = "-"
                s == IF s1 # <<>> /\ Head(s1) \in {"-", "+"} THEN Tail(s1) ELSE s1
            IN IF s # <<>> /\ AllDigits(s)
               THEN PyInt(IF neg THEN 0 - DigitsToInt(s) ELSE DigitsToInt(s))
               ELSE Raise("ValueError")
      [] x.k = "raise" -> x
      [] OTHER -> Raise("TypeError")

\* sum(int(li.get("quantity", 0) or 0) for li in line_items)
RECURSIVE sum_quantities(_)
sum_quantities(line_items) ==
    IF line_items = <<>> THEN PyInt(0)
    ELSE LET q == Get(Head(line_items), "quantity", PyInt(0))
             n == IF IsRaise(q) THEN q ELSE int(Or(q, PyInt(0)))
             rest == sum_quantities(Tail(line_items))
         IN IF IsRaise(n) THEN n
            ELSE IF IsRaise(rest) THEN rest
            ELSE PyInt(n.v + rest.v)

\* sorted(S) of a set of strs
RECURSIVE Sorted(_)
Sorted(S) ==
    IF S = {} THEN <<>>
    ELSE LET m == CHOOSE x \in S : \A y \in S : StrLeq(x, y)
         IN <<m>> \o Sorted(S \ {m})

\* sep.join(parts)
RECURSIVE Join(_, _)
Join(sep, parts) ==
    IF parts = <<>> THEN <<>>
    ELSE IF Len(parts) = 1 THEN Head(parts)
    ELSE Head(parts) \o sep \o Join(sep, Tail(parts))

\* lines 157-158
lineitem_fulfillment_of(lineitem_statuses) ==
    IF lineitem_statuses # <<>> /\ ~AnyRaise(lineitem_statuses)
    THEN PyStr(Join(<<",", " ">>, Sorted({x.v : x \in Range(lineitem_statuses)})))
    ELSE PyStr(<<>>)

\* line 160
requires_of(line_items) ==
    [i \in 1..Len(line_items) |-> Get(line_items[i], "requires_shipping", NoneV)]

\* line 163
shipping_method_of(shipping_lines) ==
    IF shipping_lines # <<>> THEN Get(shipping_lines[1], "title", NoneV)
    ELSE PyStr(<<>>)

\* line 177: the argument of to_float
shipping_amount(o) ==
    Get(Get(Or(Get(o, "total_shipping_price_set", NoneV), EmptyDict),
            "shop_money", EmptyDict),
        "amount", NoneV)

\* lines 167-195: the dict literal
row_dict(o, billing, shipping, skus, total_productos, lineitem_statuses, requires, shipping_method, trace, fulfilled, amount) ==
    PyDict([c \in Range(COLUMNS) |->
        CASE c = Col.Order_ID -> Get(o, "id", NoneV)
          [] c = Col.KC -> Get(o, "name", NoneV)
          [] c = Col.Created_at -> PyStr(format_datetime(Get(o, "created_at", NoneV)))
          [] c = Col.Updated_at -> PyStr(format_datetime(Get(o, "updated_at", NoneV)))
          [] c = Col.Financial_Status -> Get(o, "financial_status", NoneV)
          [] c = Col.Paid_at -> PyStr(format_datetime(Get(o, "processed_at", NoneV)))
          [] c = Col.Fulfillment_Status -> Get(o, "fulfillment_status", NoneV)
          [] c = Col.Fulfilled_at -> PyStr(format_datetime(fulfilled))
          [] c = Col.Subtotal -> to_float(Get(o, "subtotal_price", NoneV))
          [] c = Col.Shipping -> to_float(amount)
          [] c = Col.Total -> to_float(Get(o, "total_price", NoneV))
          [] c = Col.Discount_Amount -> to_float(Get(o, "total_discounts", NoneV))
          [] c = Col.Metodo_envio -> shipping_method
          [] c = Col.SKUs -> PyInt(Cardinality(Range(skus)))
          [] c = Col.Total_Productos -> total_productos
          [] c = Col.Billing_City -> Get(billing, "city", NoneV)
          [] c = Col.Billing_Province -> Get(billing, "province", NoneV)
          [] c = Col.Shipping_City -> Get(shipping, "city", NoneV)
          [] c = Col.Lineitem_requires_shipping ->
                PyBool(\E i \in 1..Len(requires) : Truthy(requires[i]))
          [] c = Col.Lineitem_fulfillment_status -> lineitem_fulfillment_of(lineitem_statuses)
          [] c = Col.Cancelled_at -> PyStr(format_datetime(Get(o, "cancelled_at", NoneV)))
          [] c = Col.Tags -> Get(o, "tags", NoneV)
          [] OTHER -> PyStr(trace.v[c])])

\* the row, or the exception that computing one of its parts raised
row_or_raise(o, billing, shipping, skus, total_productos, lineitem_statuses, requires, shipping_method, trace, fulfilled, amount, parts) ==
    IF AnyRaise(parts) THEN CHOOSE r \in Range(parts) : IsRaise(r)
    ELSE row_dict(o, billing, shipping, skus, total_productos, lineitem_statuses,
                  requires, shipping_method, trace, fulfilled, amount)

row_parts(o, billing, shipping, skus, total_productos, lineitem_statuses, requires, shipping_method, trace, fulfilled, amount) ==
    row_or_raise(o, billing, shipping, skus, total_productos, lineitem_statuses,
                 requires, shipping_method, trace, fulfilled, amount,
                 <<Get(billing, "city", NoneV), Get(shipping, "city", NoneV),
                   total_productos, shipping_method, trace, fulfilled, amount>>
                 \o skus \o lineitem_statuses \o requires)

\* lines 153-165, with the line items and the shipping lines of the order
row_of_items(o, line_items, shipping_lines) ==
    row_parts(o,
              Or(Get(o, "billing_address", NoneV), EmptyDict),
              Or(Get(o, "shipping_address", NoneV), EmptyDict),
              TruthyGets(line_items, "sku"),
              sum_quantities(line_items),
              TruthyGets(line_items, "fulfillment_status"),
              requires_of(line_items),
              shipping_method_of(shipping_lines),
              extract_traceability(Or(Get(o, "note_attributes", NoneV), PyList(<<>>))),
              get_fulfilled_at(o),
              shipping_amount(o))

\* the body of the for loop of orders_to_rows: the row of one order (a dict
\* whose keys are the columns), or the exception raised
order_to_row(o) ==
    row_of_items(o,
                 Or(Get(o, "line_items", PyList(<<>>)), PyList(<<>>)).v,
                 Or(Get(o, "shipping_lines", PyList(<<>>)), PyList(<<>>)).v)

\* the list of rows, or the first exception raised
rows_append(row, rest) ==
    IF IsRaise(row) THEN row
    ELSE IF IsRaise(rest) THEN rest
    ELSE PyList(<<row>> \o rest.v)

RECURSIVE orders_to_rows(_)
orders_to_rows(os) ==
    IF os = <<>> THEN PyList(<<>>)
    ELSE rows_append(order_to_row(Head(os)), orders_to_rows(Tail(os)))

-----------------------------------------------------------------------------
(* main: the DataFrame and the numeric normaliser *)

PyNaN == [k |-> "nan"]

IsNA(x) == x.k \in {"None", "nan"}

\* the values of a column as pandas holds them: a column of ints with missing
\* values is a float column with NaN
column_values(rows, c) ==
    LET col == [i \in 1..Len(rows) |-> rows[i].v[c]]
        numeric == /\ \A i \in 1..Len(col) : col[i].k \in {"int", "None"}
                   /\ \E i \in 1..Len(col) : col[i].k = "int"
                   /\ \E i \in 1..Len(col) : col[i].k = "None"
    IN IF numeric
       THEN [i \in 1..Len(col) |->
                IF col[i].k = "int" THEN PyFloat(1000 * col[i].v) ELSE PyNaN]
       ELSE col

\* pd.DataFrame(rows): the columns are the keys of the rows; none for no rows
DataFrame(rows) ==
    LET columns == IF rows = <<>> THEN <<>> ELSE COLUMNS
    IN [columns |-> columns,
        data |-> [i \in 1..Len(rows) |->
                    [c \in Range(columns) |-> column_values(rows, c)[i]]]]

MONEY_COLUMNS == <<Col.Subtotal, Col.Shipping, Col.Total, Col.Discount_Amount>>

\* round(2) of a float held in thousandths, ties to even
round2(m) ==
    LET a == IF m < 0 THEN 0 - m ELSE m
        q == a \div 10
        r == a % 10
        up == r > 5 \/ (r = 5 /\ q % 2 = 1)
        n == 10 * (IF up THEN q + 1 ELSE q)
    IN IF m < 0 THEN 0 - n ELSE n

\* pd.to_numeric(x, errors="coerce"), then fillna(0), then round(2)
to_numeric_round(x) ==
    CASE x.k = "float" -> PyFloat(round2(x.v))
      [] x.k = "int" -> x
      [] x.k = "bool" -> x
      [] x.k = "str" ->
            (LET p == ParseFloat(x.v)
             IN IF p.ok THEN PyFloat(round2(p.v)) ELSE PyFloat(0))
      [] OTHER -> PyFloat(0)

\* lines 225-227: the loop over the monetary columns
normalize(frame) ==
    [frame EXCEPT !.data =
        [i \in 1..Len(frame.data) |->
            [c \in Range(frame.columns) |->
                IF c \in Range(MONEY_COLUMNS)
                THEN to_numeric_round(frame.data[i][c])
                ELSE frame.data[i][c]]]]

-----------------------------------------------------------------------------
(* write_df_to_sheet: the values, and the worksheet *)

\* df.fillna("") of one value
fillna(x) == IF IsNA(x) THEN PyStr(<<>>) ELSE x

\* [df.columns.tolist()] + df.astype(str).values.tolist(), after fillna("")
sheet_values(frame) ==
    <<frame.columns>> \o
    [i \in 1..Len(frame.data) |->
        [j \in 1..Len(frame.columns) |-> str(fillna(frame.data[i][frame.columns[j]]))]]

\* a clear that leaves every cell as it is
ws_keep(cells) == cells

\* ws.clear()
ws_clear(cells) == <<>>

\* ws.update(values): the values are written from A1; cells outside them are kept
ws_update(cells, values) ==
    [i \in 1..Max(Len(cells), Len(values)) |->
        LET old == IF i <= Len(cells) THEN cells[i] ELSE <<>>
            new == IF i <= Len(values) THEN values[i] ELSE <<>>
        IN [j \in 1..Max(Len(old), Len(new)) |->
                IF j <= Len(new) THEN new[j] ELSE old[j]]]

-----------------------------------------------------------------------------
(* the order source: responses of GET orders.json *)

BASE_URL == <<"h", "t", "t", "p", "s", ":", "/", "/", "s", "/", "a", "d", "m", "i", "n", "/", "a", "p", "i", "/", "v">>
PageLimit == 250
ExcerptLen == 900
DAYS_BACK == 7

\* the strings of the data: what the source sends and what the tab holds.
\* Sample.U1, Sample.U2, Sample.UC are continuation URLs (Sample.UC holds a comma)
Sample ==
    [paid |-> <<"p", "a", "i", "d">>,
     fulfilled |-> <<"f", "u", "l", "f", "i", "l", "l", "e", "d">>,
     N1 |-> <<"#", "1", "0", "0", "1">>,
     N2 |-> <<"#", "1", "0", "0", "2">>,
     N3 |-> <<"#", "1", "0", "0", "3">>,
     Stgo |-> <<"S", "a", "n", "t", "i", "a", "g", "o">>,
     Express |-> <<"E", "x", "p", "r", "e", "s", "s">>,
     SKU_A |-> <<"S", "K", "U", "-", "A">>,
     SKU_B |-> <<"S", "K", "U", "-", "B">>,
     M_1999 |-> <<"1", "9", ",", "9", "9">>,
     M_5 |-> <<"5", ".", "0", "0">>,
     M_2499 |-> <<"2", "4", ".", "9", "9">>,
     abc |-> <<"a", "b", "c">>,
     Embalado |-> <<"E", "m", "b", "a", "l", "a", "d", "o">>,
     TS_A |-> <<"2", "0", "2", "4", "-", "0", "1", "-", "0", "5", "T", "1", "0", ":", "0", "0", ":", "0", "0", "Z">>,
     TS_B |-> <<"2", "0", "2", "4", "-", "0", "1", "-", "0", "6", "T", "0", "9", ":", "3", "0", ":", "0", "0", "-", "0", "3", ":", "0", "0">>,
     Nota |-> <<"N", "o", "t", "a">>,
     Carrier_code |-> <<"C", "a", "r", "r", "i", "e", "r", "-", "c", "o", "d", "e">>,
     TS_Locale |-> <<"0", "5", "-", "0", "1", "-", "2", "0", "2", "4", " ", "3", ":", "0", "4", ":", "0", "5", " ", "p", ".", "m", ".">>,
     pronto |-> <<"p", "r", "o", "n", "t", "o">>,
     garbage |-> <<"g", "a", "r", "b", "a", "g", "e">>,
     TS_NoSuchDay |-> <<"2", "0", "2", "4", "-", "1", "3", "-", "4", "5", "T", "1", "0", ":", "0", "0", ":", "0", "0", "Z">>,
     three |-> <<"3">>,
     U1 |-> <<"h", "t", "t", "p", "s", ":", "/", "/", "s", "/", "o", "?", "p", "=", "1">>,
     U2 |-> <<"h", "t", "t", "p", "s", ":", "/", "/", "s", "/", "o", "?", "p", "=", "2">>,
     UC |-> <<"h", "t", "t", "p", "s", ":", "/", "/", "s", "/", "o", "?", "p", "=", "3", ",", "4">>,
     OLD |-> <<"O", "L", "D">>,
     next |-> <<"n", "e", "x", "t">>,
     previous |-> <<"p", "r", "e", "v", "i", "o", "u", "s">>]

OrderA ==
    PyDict([id |-> PyInt(1001), name |-> PyStr(Sample.N1),
            created_at |-> PyStr(Sample.TS_A), updated_at |-> PyStr(Sample.TS_B),
            processed_at |-> PyStr(Sample.TS_A), cancelled_at |-> NoneV,
            financial_status |-> PyStr(Sample.paid), fulfillment_status |-> PyStr(Sample.fulfilled),
            subtotal_price |-> PyStr(Sample.M_1999), total_price |-> PyStr(Sample.M_2499),
            total_shipping_price_set |-> PyDict([shop_money |-> PyDict([amount |-> PyStr(Sample.M_5)])]),
            line_items |-> PyList(<<
                PyDict([sku |-> PyStr(Sample.SKU_A), quantity |-> PyInt(2),
                        fulfillment_status |-> PyStr(Sample.fulfilled),
                        requires_shipping |-> PyBool(TRUE)]),
                PyDict([sku |-> PyStr(Sample.SKU_B), quantity |-> PyInt(1),
                        fulfillment_status |-> NoneV,
                        requires_shipping |-> PyBool(FALSE)])>>),
            shipping_lines |-> PyList(<<PyDict([title |-> PyStr(Sample.Express)])>>),
            fulfillments |-> PyList(<<PyDict([created_at |-> PyStr(Sample.TS_B)])>>),
            billing_address |-> PyDict([city |-> PyStr(Sample.Stgo), province |-> NoneV]),
            note_attributes |-> PyList(<<PyDict([name |-> PyStr(Sample.Embalado),
                                                 value |-> PyStr(Sample.TS_A)])>>),
            tags |-> PyStr(<<>>)])

\* an order with most fields null or absent
OrderB ==
    PyDict([id |-> PyInt(1002), name |-> PyStr(Sample.N2), created_at |-> PyStr(Sample.TS_B),
            financial_status |-> NoneV, line_items |-> PyList(<<>>),
            billing_address |-> NoneV, tags |-> NoneV])

\* an order with no id
OrderC ==
    PyDict([name |-> PyStr(Sample.N3), created_at |-> PyStr(Sample.TS_A),
            cancelled_at |-> PyStr(Sample.TS_B), total_price |-> PyStr(Sample.M_5)])

\* an order whose line item quantity is no number
OrderBad ==
    PyDict([id |-> PyInt(1004),
            line_items |-> PyList(<<PyDict([quantity |-> PyStr(Sample.abc)])>>)])

\* the Link header of a response: one descriptor per link
LinkDescriptor(l) ==
    <<"<">> \o l.url \o <<">", ";", " ", "r", "e", "l", "=", "\"">> \o l.rel \o <<"\"">>

LinkHeader(links) ==
    IF links = <<>> THEN NoneV
    ELSE PyStr(Join(<<",", " ">>, [i \in 1..Len(links) |-> LinkDescriptor(links[i])]))

Link(u, rel) == [url |-> u, rel |-> rel]

FIRST_URL == BASE_URL \o Lit.orders_json

\* a response body of n characters
Body(n) == [i \in 1..n |-> DigitChar(i % 10)]

Response(status, text, os, links) ==
    [status |-> status, text |-> text, orders |-> os, links |-> links]

\* what the source may answer to a request: pages that go on (a next link,
\* alone or after a previous link, or one whose url holds a comma), last pages
\* (no Link header, or only a previous link), an empty window, an order that
\* is malformed, and answers that are not 200
Responses ==
    {Response(200, <<>>, <<OrderA>>, <<Link(Sample.U1, Sample.next)>>),
     Response(200, <<>>, <<OrderB, OrderC>>,
              <<Link(FIRST_URL, Sample.previous), Link(Sample.U2, Sample.next)>>),
     Response(200, <<>>, <<OrderA>>, <<Link(Sample.U1, Sample.previous)>>),
     Response(200, <<>>, <<OrderB, OrderC>>, <<>>),
     Response(200, <<>>, <<OrderA>>, <<Link(Sample.UC, Sample.next)>>),
     Response(200, <<>>, <<>>, <<>>),
     Response(200, <<>>, <<OrderBad>>, <<>>),
     Response(500, Body(ExcerptLen + 1), <<>>, <<>>),
     Response(204, <<>>, <<>>, <<>>),
     Response(429, Body(4), <<OrderA>>, <<Link(Sample.U1, Sample.next)>>)}

-----------------------------------------------------------------------------
(* main, line 220: the cutoff *)

\* the day before a date
PrevDay(dt) ==
    IF dt.d > 1 THEN [dt EXCEPT !.d = dt.d - 1]
    ELSE IF dt.mo > 1
    THEN [dt EXCEPT !.mo = dt.mo - 1, !.d = DaysInMonth(dt.y, dt.mo - 1)]
    ELSE [dt EXCEPT !.y = dt.y - 1, !.mo = 12, !.d = 31]

\* dt - timedelta(days=n)
RECURSIVE minus_days(_, _)
minus_days(dt, n) == IF n = 0 THEN dt ELSE minus_days(PrevDay(dt), n - 1)

\* dt.isoformat(timespec="seconds") of a UTC datetime
isoformat(dt) ==
    Pad(dt.y, 4) \o <<"-">> \o Pad(dt.mo, 2) \o <<"-">> \o Pad(dt.d, 2) \o <<"T">>
        \o Pad(dt.h, 2) \o <<":">> \o Pad(dt.mi, 2) \o <<":">> \o Pad(dt.se, 2) \o Lit.utc_offset

\* the instants at which a run may start
Nows == {DateTime(2026, 11, 5, 9, 0, 0), DateTime(2026, 3, 3, 23, 59, 59)}

-----------------------------------------------------------------------------
(* main and fetch_all_orders: the run *)

MaxRuns == 2
MaxRequests == 3

\* a tab left by something else: wider and longer than anything a run writes
OldCells == [i \in 1..2 |-> [j \in 1..(Len(COLUMNS) + 1) |-> Sample.OLD]]

InitialTabs ==
    {[exists |-> FALSE, cells |-> <<>>],
     [exists |-> TRUE, cells |-> <<>>],
     [exists |-> TRUE, cells |-> OldCells]}

NoPrev == [ok |-> FALSE, cutoff |-> <<>>, cells |-> <<>>]

Init ==
    /\ pc = "idle"
    /\ run = 0
    /\ cutoff = <<>>
    /\ url = <<>>
    /\ params = NoneV
    /\ orders = <<>>
    /\ main_orders = NoneV
    /\ requests = <<>>
    /\ upstream = <<>>
    /\ err = NoneV
    /\ df = NoneV
    /\ tab \in InitialTabs
    /\ tab0 = tab
    /\ sheetOps = <<>>
    /\ prev = NoPrev
    /\ fin = NoneV
    /\ fout = NotRun

\* the params of the first request
first_params(created_at_min) ==
    PyDict([limit |-> PyInt(PageLimit), status |-> PyStr(Lit.any),
            created_at_min |-> PyStr(created_at_min)])

\* main is started (lines 220, 122-127): the cutoff, and the first url and params
StartRun ==
    /\ pc \in {"idle", "done", "failed"}
    /\ run < MaxRuns
    /\ \E now \in Nows :
        /\ cutoff' = isoformat(minus_days(now, DAYS_BACK))
        /\ params' = first_params(cutoff')
    /\ run' = run + 1
    /\ url' = FIRST_URL
    /\ orders' = <<>>
    /\ main_orders' = NoneV
    /\ requests' = <<>>
    /\ err' = NoneV
    /\ df' = NoneV
    /\ tab0' = tab
    /\ sheetOps' = <<>>
    /\ prev' = IF pc = "done"
               THEN [ok |-> TRUE, cutoff |-> cutoff, cells |-> tab.cells]
               ELSE prev
    /\ pc' = "fetching"
    /\ UNCHANGED <<upstream, tab, fin, fout>>

\* a test that lets every 2xx status through
status_2xx(r) == r.status \in 200..299

\* the test of line 131, negated: the response lets the fetch go on
status_ok(r) == r.status = 200

\* line 132: the RuntimeError
ShopifyError(r) ==
    [type |-> "RuntimeError", status |-> r.status,
     excerpt |-> PySlice(r.text, 0, ExcerptLen)]

\* a fetch that stops at the failure and returns what it has collected
return_collected(r) ==
    /\ err' = ShopifyError(r)
    /\ pc' = "fetched"
    /\ main_orders' = PyList(orders)
    /\ UNCHANGED <<orders, url, params>>

\* line 132: raise; the exception leaves fetch_all_orders and main
raise_for_status(r) ==
    /\ err' = ShopifyError(r)
    /\ pc' = "failed"
    /\ UNCHANGED <<orders, main_orders, url, params>>

\* lines 134-143: the page is added, and the next url is followed or the
\* orders are returned
take_page(r) ==
    LET next_url == get_next_page_url(LinkHeader(r.links))
    IN /\ orders' = orders \o r.orders
       /\ err' = NoneV
       /\ IF ~Truthy(next_url)
          THEN /\ pc' = "fetched"
               /\ main_orders' = PyList(orders')
               /\ UNCHANGED <<url, params>>
          ELSE /\ pc' = "fetching"
               /\ url' = next_url.v
               /\ params' = NoneV
               /\ UNCHANGED main_orders

\* requests.get takes the url: it has a scheme
ValidUrl(u) == StartsAt(u, Lit.http, 0)

Request == [url |-> url, params |-> params]

\* lines 130-141: one iteration of the loop, the source answering
FetchPage ==
    /\ pc = "fetching"
    /\ Len(requests) < MaxRequests
    /\ ValidUrl(url)
    /\ requests' = Append(requests, Request)
    /\ \E r \in (IF Request \in DOMAIN upstream THEN {upstream[Request]} ELSE Responses) :
        /\ upstream' = IF Request \in DOMAIN upstream THEN upstream
                       ELSE upstream @@ (Request :> r)
        /\ IF status_ok(r) THEN take_page(r) ELSE raise_for_status(r)
    /\ UNCHANGED <<run, cutoff, df, tab, tab0, sheetOps, prev, fin, fout>>

\* line 130: requests.get raises (timeout, connection error)
FetchTimeout ==
    /\ pc = "fetching"
    /\ Len(requests) < MaxRequests
    /\ ValidUrl(url)
    /\ requests' = Append(requests, Request)
    /\ err' = [type |-> "Timeout"]
    /\ pc' = "failed"
    /\ UNCHANGED <<run, cutoff, url, params, orders, main_orders, upstream, df, tab,
                   tab0, sheetOps, prev, fin, fout>>

\* line 130: requests.get raises MissingSchema for a url without a scheme
FetchInvalidUrl ==
    /\ pc = "fetching"
    /\ Len(requests) < MaxRequests
    /\ ~ValidUrl(url)
    /\ requests' = Append(requests, Request)
    /\ err' = [type |-> "MissingSchema"]
    /\ pc' = "failed"
    /\ UNCHANGED <<run, cutoff, url, params, orders, main_orders, upstream, df, tab,
                   tab0, sheetOps, prev, fin, fout>>

\* lines 223-227: the rows, the DataFrame and the numeric normaliser
frame_rows(rows) ==
    IF IsRaise(rows)
    THEN /\ err' = [type |-> rows.v]
         /\ pc' = "failed"
         /\ UNCHANGED df
    ELSE /\ df' = normalize(DataFrame(rows.v))
         /\ pc' = "framed"
         /\ UNCHANGED err

BuildFrame ==
    /\ pc = "fetched"
    /\ frame_rows(orders_to_rows(main_orders.v))
    /\ UNCHANGED <<run, cutoff, url, params, orders, main_orders, requests, upstream,
                   tab, tab0, sheetOps, prev, fin, fout>>

\* line 229: connect_gsheets
ConnectGsheets ==
    /\ pc = "framed"
    /\ pc' = "connected"
    /\ UNCHANGED <<run, cutoff, url, params, orders, main_orders, requests, upstream,
                   err, df, tab, tab0, sheetOps, prev, fin, fout>>

\* line 206: gc.open_by_key
OpenByKey ==
    /\ pc = "connected"
    /\ sheetOps' = Append(sheetOps, "open_by_key")
    /\ pc' = "opened"
    /\ UNCHANGED <<run, cutoff, url, params, orders, main_orders, requests, upstream,
                   err, df, tab, tab0, prev, fin, fout>>

\* lines 207-209: sh.worksheet; an absent tab, or a failed call, goes to the
\* except branch
Worksheet ==
    /\ pc = "opened"
    /\ sheetOps' = Append(sheetOps, "worksheet")
    /\ \/ tab.exists /\ pc' = "located"
       \/ pc' = "adding"
    /\ UNCHANGED <<run, cutoff, url, params, orders, main_orders, requests, upstream,
                   err, df, tab, tab0, prev, fin, fout>>

\* line 210: sh.add_worksheet; it is refused when the tab exists
AddWorksheet ==
    /\ pc = "adding"
    /\ sheetOps' = Append(sheetOps, "add_worksheet")
    /\ IF tab.exists
       THEN /\ err' = [type |-> "APIError", at |-> "add_worksheet"]
            /\ pc' = "failed"
            /\ UNCHANGED tab
       ELSE /\ tab' = [exists |-> TRUE, cells |-> <<>>]
            /\ pc' = "located"
            /\ UNCHANGED err
    /\ UNCHANGED <<run, cutoff, url, params, orders, main_orders, requests, upstream,
                   df, tab0, prev, fin, fout>>

\* line 215: ws.clear
Clear ==
    /\ pc = "located"
    /\ sheetOps' = Append(sheetOps, "clear")
    /\ tab' = [tab EXCEPT !.cells = ws_clear(tab.cells)]
    /\ pc' = "cleared"
    /\ UNCHANGED <<run, cutoff, url, params, orders, main_orders, requests, upstream,
                   err, df, tab0, prev, fin, fout>>

\* lines 212-213 and 216: ws.update of the values; line 232
Update ==
    /\ pc = "cleared"
    /\ sheetOps' = Append(sheetOps, "update")
    /\ tab' = [tab EXCEPT !.cells = ws_update(tab.cells, sheet_values(df))]
    /\ pc' = "done"
    /\ UNCHANGED <<run, cutoff, url, params, orders, main_orders, requests, upstream,
                   err, df, tab0, prev, fin, fout>>

\* the call of the spreadsheet service that main is about to make
NextCall ==
    CASE pc = "framed" -> "connect_gsheets"
      [] pc = "connected" -> "open_by_key"
      [] pc = "adding" -> "add_worksheet"
      [] pc = "located" -> "clear"
      [] pc = "cleared" -> "update"

\* lines 200-203, 206, 210, 215, 216: the call raises (credentials that do not
\* parse, authentication refused, network error); nothing is written by it
CallFails ==
    /\ pc \in {"framed", "connected", "adding", "located", "cleared"}
    /\ sheetOps' = IF pc = "framed" THEN sheetOps ELSE Append(sheetOps, NextCall)
    /\ err' = [type |-> "APIError", at |-> NextCall]
    /\ pc' = "failed"
    /\ UNCHANGED <<run, cutoff, url, params, orders, main_orders, requests, upstream,
                   df, tab, tab0, prev, fin, fout>>

Next ==
    \/ StartRun
    \/ FetchPage
    \/ FetchTimeout
    \/ FetchInvalidUrl
    \/ BuildFrame
    \/ ConnectGsheets
    \/ OpenByKey
    \/ Worksheet
    \/ AddWorksheet
    \/ Clear
    \/ Update
    \/ CallFails

Spec == Init /\ [][Next]_vars

-----------------------------------------------------------------------------
(* Properties of a run of main *)

\* the response to the i-th request of the run
Answer(i) == upstream[requests[i]]

\* the source has answered a request of this run with a status that is not 200
BadResponseSeen ==
    \E i \in 1..Len(requests) :
        requests[i] \in DOMAIN upstream /\ Answer(i).status # 200

\* fetch_all_orders has raised: main has no orders, and has ended
FetchFailed == pc = "failed" /\ main_orders = NoneV

\* C1: in every run of main, if fetch_all_orders fails (a page response is
\* not a success, or the request itself fails), no spreadsheet operation is
\* performed in that run, and the tab is as it was before the run.
C1_NoSheetOpAfterFetchFailure ==
    BadResponseSeen \/ FetchFailed => sheetOps = <<>> /\ tab = tab0

\* the second page was answered 500, over a tab that held content
C1_Witness ==
    /\ FetchFailed
    /\ Len(requests) = 2
    /\ err.type = "RuntimeError" /\ err.status = 500
    /\ orders # <<>>
    /\ tab0.cells = OldCells
    /\ sheetOps = <<>> /\ tab = tab0

\* C2: whenever a run has ended, in an error of any stage or in success, the
\* tab holds either the complete content it had before the run or the
\* complete new content, never a cleared or partly written tab.
C2_NoPartialWrite ==
    /\ pc = "failed" => tab.cells = tab0.cells
    /\ pc = "done" => tab.cells = sheet_values(df)

\* C3: the content of the tab after a successful run is the values of the
\* frame of that run, whatever the tab held before (nothing of it survives);
\* and a successful run over the same window and the same source as the last
\* successful run leaves the same content as that run did.
C3_FullOverwrite ==
    pc = "done" =>
        /\ tab.cells = sheet_values(df)
        /\ prev.ok /\ prev.cutoff = cutoff => tab.cells = prev.cells

\* a second successful run over the same window has written a header and rows
C3_Witness ==
    /\ pc = "done"
    /\ run = 2
    /\ prev.ok /\ prev.cutoff = cutoff
    /\ Len(tab.cells) >= 3
    /\ tab.cells = prev.cells

\* the url of the link tagged next among the links of a response, or <<>>
NextTagged(links) ==
    IF \E i \in 1..Len(links) : links[i].rel = Sample.next
    THEN links[CHOOSE i \in 1..Len(links) : links[i].rel = Sample.next].url
    ELSE <<>>

\* the orders of the pages that answered the first n requests
RECURSIVE PagesOrders(_)
PagesOrders(n) == IF n = 0 THEN <<>> ELSE PagesOrders(n - 1) \o Answer(n).orders

\* every response of this run was a success
AllPagesOk ==
    \A i \in 1..Len(requests) : requests[i] \in DOMAIN upstream => Answer(i).status = 200

\* C4: when every page response is a success, fetch_all_orders requests the
\* first page, then exactly the URL tagged rel="next" of each response, stops
\* at the first response without such a link, and returns exactly the orders
\* of the pages it visited.
C4_FollowsNextLinks ==
    AllPagesOk =>
        /\ \A i \in 1..Len(requests) :
              IF i = 1
              THEN requests[i] = [url |-> FIRST_URL, params |-> first_params(cutoff)]
              ELSE requests[i] = [url |-> NextTagged(Answer(i - 1).links), params |-> NoneV]
        /\ main_orders # NoneV =>
              /\ NextTagged(Answer(Len(requests)).links) = <<>>
              /\ main_orders = PyList(PagesOrders(Len(requests)))

\* C5 (as the code has it): the fetch goes on after a response exactly when
\* its status is 200; the first response of any other status, another 2xx
\* included, raises an error that carries the status and the first ExcerptLen
\* characters of the body; no request follows it, and the orders of the
\* earlier pages are not returned.
C5_FailsOnNon200 ==
    /\ \A i \in 1..(Len(requests) - 1) : Answer(i).status = 200
    /\ main_orders # NoneV => \A i \in 1..Len(requests) : Answer(i).status = 200
    /\ pc = "failed" /\ err.type = "RuntimeError" =>
          /\ Answer(Len(requests)).status # 200
          /\ err.status = Answer(Len(requests)).status
          /\ err.excerpt = SubSeq(Answer(Len(requests)).text, 1,
                                  Min(Len(Answer(Len(requests)).text), ExcerptLen))
          /\ main_orders = NoneV

\* the second page was answered 500 with a body longer than the excerpt
C5_Witness ==
    /\ pc = "failed" /\ err.type = "RuntimeError"
    /\ Len(requests) = 2
    /\ orders # <<>>
    /\ err.status = 500
    /\ Len(Answer(2).text) > ExcerptLen
    /\ Len(err.excerpt) = ExcerptLen
    /\ main_orders = NoneV

\* C5: the first response whose status is not a success raises an error with
\* the status and a bounded excerpt of the body, no request follows, the
\* orders of earlier pages are not returned, no URL is requested more than
\* once in a run, and every success status lets the fetch continue.
C5_EverySuccessContinues ==
    /\ C5_FailsOnNon200
    /\ pc = "failed" /\ err.type = "RuntimeError"
          => Answer(Len(requests)).status \notin 200..299
    /\ \A i, j \in 1..Len(requests) : i # j => requests[i].url # requests[j].url

NULL_MARKERS == {Lit.None, <<"n", "a", "n">>, <<"N", "a", "N">>}

\* C9: for every row collection, the empty one included, the writer locates
\* or creates the tab, clears it, and writes the header row of the fixed
\* column names followed by exactly one row per data row; a missing value is
\* written as an empty string, never as a null marker.
C9_HeaderAndRows ==
    pc = "done" =>
        /\ sheetOps \in {<<"open_by_key", "worksheet", "clear", "update">>,
                         <<"open_by_key", "worksheet", "add_worksheet", "clear", "update">>}
        /\ Len(tab.cells) = 1 + Len(main_orders.v)
        /\ tab.cells[1] = COLUMNS
        /\ \A i \in 2..Len(tab.cells) :
              /\ Len(tab.cells[i]) = Len(COLUMNS)
              /\ \A j \in 1..Len(COLUMNS) : tab.cells[i][j] \notin NULL_MARKERS

-----------------------------------------------------------------------------
(* The functions alone: a specification draws an input, and applies the      *)
(* function to it.  main is not started.                                     *)

\* main has not run, and nothing is in the tab
Idle ==
    /\ pc = "idle"
    /\ run = 0
    /\ cutoff = <<>>
    /\ url = <<>>
    /\ params = NoneV
    /\ orders = <<>>
    /\ main_orders = NoneV
    /\ requests = <<>>
    /\ upstream = <<>>
    /\ err = NoneV
    /\ df = NoneV
    /\ tab = [exists |-> FALSE, cells |-> <<>>]
    /\ tab0 = tab
    /\ sheetOps = <<>>
    /\ prev = NoPrev

-----------------------------------------------------------------------------
(* parse_trace_dt on locale timestamps *)

\* what the inputs are written from: the hours (the clock hours, and hours
\* that no conversion, or only one, brings into 0..23), the dates, the markers
\* as they are written with the letter each one carries, the separators, and
\* the minutes and seconds
TraceParts ==
    [hours |->
        (0..13) \cup {23, 24},
     dates |->
        {[dd |-> 5, mm |-> 1, yyyy |-> 2024],
         [dd |-> 29, mm |-> 2, yyyy |-> 2024],
         [dd |-> 31, mm |-> 12, yyyy |-> 1999]},
     markers |->
        {[ap |-> "none", text |-> <<>>],
         [ap |-> "none", text |-> <<" ", "h", "r", "s">>],
         [ap |-> "a", text |-> <<" ", "a", ".", "m", ".">>],
         [ap |-> "p", text |-> <<" ", "p", ".", "m", ".">>],
         [ap |-> "p", text |-> <<"P", "M">>],
         [ap |-> "a", text |-> <<NBSP, "A", ".", " ", "M", ".">>],
         [ap |-> "p", text |-> <<NNBSP, "p", ".", NBSP, "m", ".">>]},
     separators |->
        {<<" ">>, <<",", " ">>},
     clock |->
         [mi |-> 4, ss |-> 5]]

\* an hour as it is written: one digit or two
HourTexts(hh) == IF hh < 10 THEN {<<DigitChar(hh)>>, Pad(hh, 2)} ELSE {Pad(hh, 2)}

TraceHourForms == UNION {{[hh |-> h, text |-> t] : t \in HourTexts(h)} : h \in TraceParts.hours}

\* DD-MM-YYYY<sep>H:MM:SS<marker>: a value as extract_traceability passes it,
\* stripped (line 85)
TraceText(date, sep, hour, marker) ==
    Pad(date.dd, 2) \o <<"-">> \o Pad(date.mm, 2) \o <<"-">> \o Pad(date.yyyy, 4)
        \o sep \o hour.text \o <<":">> \o Pad(TraceParts.clock.mi, 2) \o <<":">>
        \o Pad(TraceParts.clock.ss, 2) \o marker.text

\* an input: the value passed to parse_trace_dt, and what it was written from
TraceInputs ==
    {[value |-> PyStr(TraceText(date, sep, hour, marker)),
      date |-> date, hh |-> hour.hh, ap |-> marker.ap] :
        date \in TraceParts.dates, sep \in TraceParts.separators, hour \in TraceHourForms,
        marker \in TraceParts.markers}

InitTraceDt ==
    /\ Idle
    /\ fin \in TraceInputs
    /\ fout = NotRun

\* the call parse_trace_dt(value)
ParseTraceDt ==
    /\ fout = NotRun
    /\ fout' = PyStr(parse_trace_dt(fin.value))
    /\ UNCHANGED <<pvars, fin>>

SpecTraceDt == InitTraceDt /\ [][ParseTraceDt]_vars

-----------------------------------------------------------------------------
(* extract_traceability on one note attribute *)

\* the upper-case letter of a lower-case one
UpperOf(c) ==
    IF \E i \in 1..Len(ASCII) : ASCII[i] # c /\ LowerOf(ASCII[i]) = c
    THEN ASCII[CHOOSE i \in 1..Len(ASCII) : ASCII[i] # c /\ LowerOf(ASCII[i]) = c]
    ELSE c

Upper(s) == [i \in 1..Len(s) |-> UpperOf(s[i])]
Capitalised(s) == <<UpperOf(Head(s))>> \o Tail(s)

\* what the inputs are written from: the attribute name of each event, as the
\* chain of lines 87-97 spells it, with the key it stands for; names of no
\* event and a name that only holds the word carrier; the values; and note
\* attributes without a name
NoteParts ==
    [events |->
        {[name |-> Lit.embalado, key |-> Col.Embalado],
         [name |-> Lit.transferido_a_tienda, key |-> Col.Transferido_a_tienda],
         [name |-> Lit.listo_para_retiro, key |-> Col.Listo_para_retiro],
         [name |-> Lit.retirado_por_cliente, key |-> Col.Retirado],
         [name |-> Lit.entregado_a_transportista, key |-> Col.Entregado_a_transportista]},
     others |->
        {[name |-> Sample.Nota, key |-> <<>>],
         [name |-> Sample.Carrier_code, key |-> Col.Entregado_a_transportista]},
     values |->
        {Sample.TS_A, Sample.TS_Locale, Sample.pronto, <<>>},
     unnamed |->
        {NoneV, PyList(<<>>), PyList(<<PyDict([value |-> PyStr(Sample.TS_A)])>>)}]

\* a name with its separators written as c
WithSeparator(name, c) == Replace(name, "_", <<c>>)

\* the ways an event name is written: letter case and separators vary
NameForms(name) ==
    UNION {{n, Capitalised(n), Upper(n), <<" ">> \o Capitalised(n) \o <<" ">>} :
              n \in {name, WithSeparator(name, " "), WithSeparator(name, "-")}}

\* the names written in the inputs, each with the key of its event (<<>>: none)
NamedEvents ==
    UNION {{[name |-> n, key |-> ev.key] : n \in NameForms(ev.name)} : ev \in NoteParts.events}
        \cup NoteParts.others

\* an input: the note attributes, and the event their one name stands for
NoteInputs ==
    {[attrs |-> PyList(<<PyDict([name |-> PyStr(e.name), value |-> PyStr(v)])>>),
      name |-> e.name, key |-> e.key, value |-> v] :
        e \in NamedEvents, v \in NoteParts.values}
    \cup {[attrs |-> a, name |-> <<>>, key |-> <<>>, value |-> <<>>] : a \in NoteParts.unnamed}

InitTrace ==
    /\ Idle
    /\ fin \in NoteInputs
    /\ fout = NotRun

\* the call extract_traceability(note_attrs)
ExtractTraceability ==
    /\ fout = NotRun
    /\ fout' = extract_traceability(fin.attrs)
    /\ UNCHANGED <<pvars, fin>>

SpecTrace == InitTrace /\ [][ExtractTraceability]_vars

-----------------------------------------------------------------------------
(* orders_to_rows on one order *)

Absent == [k |-> "absent"]

\* the dict of the fields that are present
Field(key, x) == IF x = Absent THEN <<>> ELSE (key :> x)

\* what the orders are written from: timestamps as the source may send them
\* (and whether each is one), quantities of a line item (and the number each
\* stands for), total_shipping_price_set (and its amount in thousandths), and
\* note_attributes (absent, complete, without a value, without a name)
OrderParts ==
    [timestamps |->
        {[v |-> Absent, parses |-> FALSE],
         [v |-> NoneV, parses |-> FALSE],
         [v |-> PyStr(<<>>), parses |-> FALSE],
         [v |-> PyStr(Sample.garbage), parses |-> FALSE],
         [v |-> PyStr(Sample.TS_NoSuchDay), parses |-> FALSE],
         [v |-> PyStr(Sample.TS_A), parses |-> TRUE],
         [v |-> PyStr(Sample.TS_B), parses |-> TRUE]},
     quantities |->
        <<[v |-> Absent, n |-> 0],
         [v |-> NoneV, n |-> 0],
         [v |-> PyInt(2), n |-> 2],
         [v |-> PyStr(Sample.three), n |-> 3],
         [v |-> PyStr(Sample.abc), n |-> 0]>>,
     shipping |->
        {[v |-> Absent, amount |-> 0],
         [v |-> NoneV, amount |-> 0],
         [v |-> PyDict([shop_money |-> PyDict([amount |-> PyStr(Sample.M_5)])]), amount |-> 5000],
         [v |-> PyDict([shop_money |-> EmptyDict]), amount |-> 0],
         [v |-> PyDict([shop_money |-> NoneV]), amount |-> 0]},
     notes |->
        {Absent,
         PyList(<<PyDict([name |-> PyStr(Sample.Embalado), value |-> PyStr(Sample.TS_A)])>>),
         PyList(<<PyDict([name |-> PyStr(Sample.Embalado)])>>),
         PyList(<<PyDict([value |-> PyStr(Sample.TS_A)])>>)}]

\* the order of an input: every standard timestamp is ts
OrderOf(ts, quantity, shipping, notes) ==
    PyDict(Field("id", PyInt(1001))
           @@ Field("created_at", ts) @@ Field("updated_at", ts)
           @@ Field("processed_at", ts) @@ Field("cancelled_at", ts)
           @@ Field("fulfillments",
                    PyList(<<PyDict(Field("created_at", ts))>>))
           @@ Field("line_items",
                    PyList(<<PyDict(Field("sku", PyStr(Sample.SKU_A))
                                    @@ Field("quantity", quantity))>>))
           @@ Field("total_shipping_price_set", shipping)
           @@ Field("note_attributes", notes))

\* an input: the order, and what it was written from
OrderInputs ==
    {[order |-> OrderOf(ts.v, q.v, sh.v, notes),
      ts |-> ts, quantity |-> q, shipping |-> sh, notes |-> notes] :
        ts \in OrderParts.timestamps, q \in Range(OrderParts.quantities), sh \in OrderParts.shipping,
        notes \in OrderParts.notes}

InitRows ==
    /\ Idle
    /\ fin \in OrderInputs
    /\ fout = NotRun

\* the call orders_to_rows([order])
OrdersToRows ==
    /\ fout = NotRun
    /\ fout' = orders_to_rows(<<fin.order>>)
    /\ UNCHANGED <<pvars, fin>>

SpecRows == InitRows /\ [][OrdersToRows]_vars

\* the 24-hour value of an hour written with a marker, case by case
ClockHour(hh, ap) ==
    CASE ap = "p" /\ hh # 12 -> hh + 12
      [] ap = "a" /\ hh = 12 -> 0
      [] OTHER -> hh

\* DD/MM/YYYY HH:MM:SS of the date and clock of an input, at hour h
TraceOutput(i, h) ==
    Pad(i.date.dd, 2) \o <<"/">> \o Pad(i.date.mm, 2) \o <<"/">> \o Pad(i.date.yyyy, 4)
        \o <<" ">> \o Pad(h, 2) \o <<":">> \o Pad(TraceParts.clock.mi, 2) \o <<":">>
        \o Pad(TraceParts.clock.ss, 2)

\* C10: for a locale timestamp DD-MM-YYYY ... H:MM:SS with a valid date,
\* parse_trace_dt adds 12 to the hour when the marker is p and the hour is
\* not 12, maps 12 to 0 when the marker is a, and leaves the hour unchanged
\* otherwise; every hour 1..12 with a marker comes out as its 24-hour value
\* (12 a.m. as 00, 12 p.m. as 12); and when the converted hour is outside
\* 0..23 the string that was passed is returned unchanged.
C10_HourConversion ==
    fout # NotRun =>
        /\ ClockHour(fin.hh, fin.ap) \in 0..23
              => fout.v = TraceOutput(fin, ClockHour(fin.hh, fin.ap))
        /\ ClockHour(fin.hh, fin.ap) \notin 0..23 => fout.v = fin.value.v
        /\ fin.hh \in 1..12 /\ fin.ap \in {"a", "p"}
              => fout.v = TraceOutput(fin, (fin.hh % 12) + (IF fin.ap = "p" THEN 12 ELSE 0))

\* 12 a.m. has been parsed, and came out as hour 00
C10_Witness ==
    /\ fout # NotRun
    /\ fin.hh = 12 /\ fin.ap = "a"
    /\ fout.v = TraceOutput(fin, 0)

\* the trace that holds the parsed value at one key, and nothing elsewhere
TraceOf(key, value) ==
    [k \in TRACE_KEYS |-> IF k = key THEN parse_trace_dt(PyStr(value)) ELSE <<>>]

\* C7: a note attribute whose name is the name of one of the five events,
\* whatever its letter case and whether its separators are '_', '-' or
\* spaces, sets the field of that event; the map has exactly the five keys,
\* and every key no attribute matched holds the empty string.
C7_NameMatching ==
    fout # NotRun =>
        /\ fout.k = "dict"
        /\ DOMAIN fout.v = TRACE_KEYS
        /\ fout.v = TraceOf(fin.key, fin.value)

\* C6: orders_to_rows never raises: for every order, one whose line-item
\* quantity parses as no integer, whose shop_money is null, or whose note
\* attributes lack a name or a value included, it yields one row per order,
\* each bad field replaced by its default.
C6_NeverRaises ==
    fout # NotRun =>
        /\ ~IsRaise(fout)
        /\ Len(fout.v) = 1
        /\ fout.v[1].v[Col.Total_Productos] = PyInt(fin.quantity.n)
        /\ fout.v[1].v[Col.Shipping] = PyFloat(fin.shipping.amount)

STANDARD_TIMESTAMPS ==
    {Col.Created_at, Col.Updated_at, Col.Paid_at, Col.Fulfilled_at, Col.Cancelled_at}

\* C8: in the row of an order, each of Created_at, Updated_at, Paid at,
\* Fulfilled at and Cancelled at is the empty string when its input is absent
\* or parses as no timestamp; the formatter of these fields never echoes the
\* raw input.
C8_StandardTimestamps ==
    fout # NotRun /\ ~IsRaise(fout) /\ ~fin.ts.parses =>
        \A c \in STANDARD_TIMESTAMPS : fout.v[1].v[c] = PyStr(<<>>)

====
